---- MODULE Spec2Model ----
(***************************************************************************)
(* Model of the LogReader application (src/app/app.py, src/util.py).       *)
(*                                                                         *)
(* A text (str) is a sequence of tokens.  A token stands for one atomic    *)
(* piece of a log line: a date prefix, a white space, a level keyword, a   *)
(* letter, the line terminator.  Offsets in a text count tokens.           *)
(*                                                                         *)
(* The Tk text widget is modelled by its content without the final         *)
(* newline that Tk always keeps: insert(END, s) appends s in front of      *)
(* that final newline, delete("n.0", END) removes whole lines.             *)
(***************************************************************************)
EXTENDS Integers, Sequences, FiniteSets, TLC

None == "None"
NoIdx == <<>>
NL == "\n"
SP == " "
DATE == "2024-01-01"

(***************************************************************************)
(* Bounds of the model.                                                    *)
(***************************************************************************)
MaxLines == 3
MaxChunkLines == 2
MaxQueue == 1
MaxWatchLines == 2
MaxWatchQueue == 2
MaxSearchLines == 3
MaxSearchQueue == 1
MaxTextLen == 3
MaxPatternLen == 2
MaxBatchLines == 3
MaxBatchQueue == 2
MaxBatchChunkLines == 2

(***************************************************************************)
(* Inputs: the physical lines a watched file may deliver, the patterns the *)
(* user may enter, the paths the user may open.                            *)
(***************************************************************************)
LogLines ==
    { <<DATE, SP, "ERROR", SP>>,
      <<DATE, SP, "INFO", SP, "A">>,
      <<"a", SP, "INFO", SP, "ERROR", SP>>,
      <<>> }

FilterTexts == { <<>>, <<"a">> }

Files == { "f1", "f2" }

\* the inputs of SpecSearch
SearchLines == { <<DATE, SP, "ERROR", SP>>, <<"a", "a", SP, "a">> }

SearchFilterTexts == { <<>>, <<"(">>, <<SP, "$">> }

SearchTexts == { <<>>, <<"a">>, <<"(">> }

\* the inputs of SpecBatch
BatchLines == { <<DATE, SP, "ERROR", SP>>, <<"a", SP, "INFO", SP, "ERROR", SP>> }

BatchFilterTexts == { <<>>, <<"(">> }

\* the inputs of SpecMatch: the texts and the patterns handed to Pattern
fooBarBoo == << "f", "o", "o", SP, "b", "a", "r", SP, "b", "o", "o" >>

MatchTexts ==
    UNION { [ 1 .. n -> { "o", "O", "I_DOT", SP } ] : n \in 0 .. MaxTextLen }
        \cup { fooBarBoo }

MatchPatterns ==
    UNION { [ 1 .. n -> { "o", "O", "I_DOT", "." } ] : n \in 1 .. MaxPatternLen }

(***************************************************************************)
(* Text helpers (str methods).                                             *)
(***************************************************************************)
Min(S) == CHOOSE x \in S : \A y \in S : x <= y

count(sText, c) == Cardinality({ i \in DOMAIN sText : sText[i] = c })

lowerTok(c) ==
    CASE c = "A" -> "a"
      [] c = "O" -> "o"
      [] c = "ERROR" -> "error"
      [] c = "WARN" -> "warn"
      [] c = "INFO" -> "info"
      [] c = "DEBUG" -> "debug"
      [] OTHER -> c

\* str.lower() of one character: "I_DOT" stands for the capital I with dot
\* above (U+0130), whose lower case is the two characters i, U+0307
lowerSeq(c) ==
    IF c = "I_DOT" THEN << "i", "DOT_ABOVE" >> ELSE << lowerTok(c) >>

RECURSIVE lower(_)
lower(sText) ==
    IF sText = <<>> THEN <<>> ELSE lowerSeq(Head(sText)) \o lower(Tail(sText))

\* str.splitlines(): split at every line terminator, no empty last element
RECURSIVE splitlines(_)
splitlines(sText) ==
    IF sText = <<>> THEN <<>>
    ELSE LET nls == { i \in DOMAIN sText : sText[i] = NL }
         IN IF nls = {} THEN <<sText>>
            ELSE LET k == Min(nls)
                 IN <<SubSeq(sText, 1, k - 1)>>
                        \o splitlines(SubSeq(sText, k + 1, Len(sText)))

\* str.find(sExpr, iStart): lowest offset >= iStart of an occurrence, -1 if none
find(sText, sExpr, iStart) ==
    LET occ == { i \in iStart .. (Len(sText) - Len(sExpr)) :
                    SubSeq(sText, i + 1, i + Len(sExpr)) = sExpr }
    IN IF occ = {} THEN -1 ELSE Min(occ)

RECURSIVE findAllFrom(_, _, _)
findAllFrom(sText, sExpr, iStart) ==
    LET i == find(sText, sExpr, iStart)
    IN IF i = -1 THEN <<>>
       ELSE <<i>> \o findAllFrom(sText, sExpr, i + Len(sExpr))

findAll(sText, sExpr) == findAllFrom(sText, sExpr, 0)

(***************************************************************************)
(* Pattern (app.py, class Pattern).  A pattern is [sPattern, bRegex].      *)
(* The regular expressions of the model are sequences of literal tokens,   *)
(* of the wildcard "." and of the end anchor "$"; a pattern holding "("    *)
(* does not compile.                                                       *)
(***************************************************************************)
Pattern(sPattern, bRegex) == [ sPattern |-> sPattern, bRegex |-> bRegex ]

\* re.compile(sPattern) raises
compileFails(sPattern) == \E i \in DOMAIN sPattern : sPattern[i] = "("

regexTokMatch(p, c) == p = c \/ (p = "." /\ c # NL)

\* "$": the end of the text, or the place in front of a last line terminator
atEnd(sText, i) ==
    i = Len(sText) \/ (i = Len(sText) - 1 /\ sText[Len(sText)] = NL)

\* the offset where the match of the tokens k.. of the pattern, begun at
\* offset i, ends; -1 if there is no match
RECURSIVE regexMatchEnd(_, _, _, _)
regexMatchEnd(sPattern, k, sText, i) ==
    IF k > Len(sPattern) THEN i
    ELSE IF sPattern[k] = "$"
         THEN IF atEnd(sText, i) THEN regexMatchEnd(sPattern, k + 1, sText, i)
              ELSE -1
         ELSE IF i < Len(sText) /\ regexTokMatch(sPattern[k], sText[i + 1])
              THEN regexMatchEnd(sPattern, k + 1, sText, i + 1)
              ELSE -1

regexMatchAt(sPattern, sText, i) == regexMatchEnd(sPattern, 1, sText, i) # -1

\* oRegex.finditer(sText): leftmost non-overlapping matches; the scan goes on
\* one character further after an empty match
RECURSIVE finditerFrom(_, _, _)
finditerFrom(sPattern, sText, iStart) ==
    LET occ == { i \in iStart .. Len(sText) : regexMatchAt(sPattern, sText, i) }
    IN IF occ = {} THEN <<>>
       ELSE LET i == Min(occ)
                iEnd == regexMatchEnd(sPattern, 1, sText, i)
            IN <<<<i, iEnd>>>>
                   \o finditerFrom(sPattern, sText,
                                   IF iEnd = i THEN i + 1 ELSE iEnd)

getAllMatches(oPattern, sText) ==
    IF oPattern.sPattern = <<>> THEN <<>>
    ELSE IF oPattern.bRegex
         THEN IF compileFails(oPattern.sPattern) THEN <<>>
              ELSE finditerFrom(oPattern.sPattern, sText, 0)
         ELSE LET lIdx == findAll(lower(sText), lower(oPattern.sPattern))
              IN [ k \in DOMAIN lIdx |-> <<lIdx[k], lIdx[k] + Len(oPattern.sPattern)>> ]

getFirstMatch(oPattern, sText) ==
    LET lAll == getAllMatches(oPattern, sText)
    IN IF lAll = <<>> THEN NoIdx ELSE lAll[1]

matches(oPattern, sText) ==
    oPattern.sPattern = <<>> \/ getFirstMatch(oPattern, sText) # NoIdx

(***************************************************************************)
(* Log levels (app.py, Application.__init__) and the record start rule.    *)
(***************************************************************************)
lLogLevels ==
    << [ sName |-> "Error",   sKeyword |-> "ERROR" ],
       [ sName |-> "Warning", sKeyword |-> "WARN" ],
       [ sName |-> "Info",    sKeyword |-> "INFO" ],
       [ sName |-> "Debug",   sKeyword |-> "DEBUG" ] >>

LevelNames == { lLogLevels[i].sName : i \in DOMAIN lLogLevels }

isSpace(c) == c \in { SP, NL }

\* LogLevel.matches: re.search(r"^.*\sKEYWORD\s", sLogLine); "." stops at a
\* line terminator, "\s" does not
levelMatches(oLogLevel, sLogLine) ==
    \E i \in DOMAIN sLogLine :
        /\ sLogLine[i] = oLogLevel.sKeyword
        /\ i > 1 /\ isSpace(sLogLine[i - 1])
        /\ i < Len(sLogLine) /\ isSpace(sLogLine[i + 1])
        /\ \A j \in 1 .. (i - 2) : sLogLine[j] # NL

\* oLogLineRegex.search(sLine) is not None, r"^\d{4}-\d{2}-\d{2}"
isLogLine(sLine) == sLine # <<>> /\ sLine[1] = DATE

\* variant: the last matching level wins
getLogLevelFrom_last(sLogExpr, i) ==
    LET S == { k \in i .. Len(lLogLevels) : levelMatches(lLogLevels[k], sLogExpr) }
    IN IF S = {} THEN None
       ELSE lLogLevels[CHOOSE k \in S : \A m \in S : m <= k].sName

RECURSIVE getLogLevelFrom(_, _)
getLogLevelFrom(sLogExpr, i) ==
    IF i > Len(lLogLevels) THEN None
    ELSE IF levelMatches(lLogLevels[i], sLogExpr) THEN lLogLevels[i].sName
         ELSE getLogLevelFrom(sLogExpr, i + 1)

getLogLevel(sLogExpr) == getLogLevelFrom(sLogExpr, 1)

(***************************************************************************)
(* Expression (app.py, class Expression).  A widget index "n.0" is the     *)
(* pair <<n, 0>>, an index that is None is the empty tuple.                *)
(***************************************************************************)
Expression(sText, oLogLevel) ==
    [ sText |-> sText, oLogLevel |-> oLogLevel,
      sStartIdx |-> NoIdx, sEndIdx |-> NoIdx, bDisplay |-> TRUE ]

lineIdx(iLine) == <<iLine, 0>>

lineOf(sIdx) == sIdx[1]

(***************************************************************************)
(* The text widget oLogTextArea: [sText, tags].  sText is the content in   *)
(* front of the final newline; offsets count from 0 and Len(sText) is the  *)
(* offset of the final newline.  tags[sTag] is the set of offsets that     *)
(* carry SEARCH_TAG or FILTER_TAG.                                         *)
(***************************************************************************)
SEARCH_TAG == "Search"
CURRENT_SEARCH_TAG == "CurrentSearch"
FILTER_TAG == "Filter"

emptyWidget ==
    [ sText |-> <<>>,
      tags |-> [ sTag \in { SEARCH_TAG, CURRENT_SEARCH_TAG, FILTER_TAG } |-> {} ] ]

\* number of lines of the widget, the empty line the final newline ends
\* included: int(index(END + "-1c").split(".")[0])
widgetLines(w) == count(w.sText, NL) + 1

\* position in sText of the newline that ends line n
newlinePos(sText, n) ==
    CHOOSE i \in DOMAIN sText :
        /\ sText[i] = NL
        /\ Cardinality({ j \in 1 .. i : sText[j] = NL }) = n

\* offset of the index "n.0"; past the last line it is the end of the widget
lineStart(w, n) ==
    IF n <= 1 THEN 0
    ELSE IF n > widgetLines(w) THEN Len(w.sText) + 1
         ELSE newlinePos(w.sText, n - 1)

\* offset of the index "n.0+kc"
charOffset(w, sIdx, k) ==
    LET i == lineStart(w, lineOf(sIdx)) + k
    IN IF i > Len(w.sText) + 1 THEN Len(w.sText) + 1 ELSE i

\* w.delete("n.0", END): nothing when line n is past the end; otherwise lines
\* n.. go, together with the newline in front of them; Tk keeps the final
\* newline and strips its tags
widgetDelete(w, n) ==
    IF n > widgetLines(w) THEN w
    ELSE LET sKept == IF n = 1 THEN <<>>
                      ELSE SubSeq(w.sText, 1, newlinePos(w.sText, n - 1) - 1)
         IN [ sText |-> sKept,
              tags |-> [ sTag \in DOMAIN w.tags |->
                           { i \in w.tags[sTag] : i < Len(sKept) } ] ]

\* w.insert(END, sText) and w.insert(END, sText, sLevelTag): the text goes in
\* front of the final newline; without a tag list it takes the tags that both
\* its neighbours carry, with one it takes none of the tags of the model
widgetInsert(w, sText, bTagList) ==
    LET n == Len(w.sText)
        m == Len(sText)
        inherits(sTag) ==
            ~bTagList /\ n > 0 /\ (n - 1) \in w.tags[sTag] /\ n \in w.tags[sTag]
    IN [ sText |-> w.sText \o sText,
         tags |-> [ sTag \in DOMAIN w.tags |->
                      { i \in w.tags[sTag] : i < n }
                        \cup (IF n \in w.tags[sTag] THEN { n + m } ELSE {})
                        \cup (IF inherits(sTag) THEN n .. (n + m - 1) ELSE {}) ] ]

\* w.tag_remove(sTag, index1, index2) and w.tag_add(sTag, index1, index2)
tagRemove(w, sTag, i1, i2) ==
    [ w EXCEPT !.tags[sTag] = { i \in @ : ~(i1 <= i /\ i < i2) } ]

tagAdd(w, sTag, i1, i2) ==
    [ w EXCEPT !.tags[sTag] = @ \cup { i \in 0 .. Len(w.sText) : i1 <= i /\ i < i2 } ]

\* w.tag_delete(sTag)
tagDelete(w, sTag) == [ w EXCEPT !.tags[sTag] = {} ]

\* w.tag_ranges(sTag): a tag is carried by characters, the ranges are the
\* maximal runs of tagged characters, as pairs of offsets, in order
RECURSIVE tagRangesFrom(_, _, _)
tagRangesFrom(w, sTag, iFrom) ==
    LET S == { i \in w.tags[sTag] : i >= iFrom }
    IN IF S = {} THEN <<>>
       ELSE LET iStart == Min(S)
                iEnd == Min({ j \in (iStart + 1) .. (Len(w.sText) + 1) :
                                j \notin w.tags[sTag] })
            IN << <<iStart, iEnd>> >> \o tagRangesFrom(w, sTag, iEnd)

tag_ranges(w, sTag) == tagRangesFrom(w, sTag, 0)

\* the index "line.char" of an offset as the pair (line, char) of line 254
posOf(w, i) ==
    LET iLine == 1 + Cardinality({ j \in 1 .. Min({ i, Len(w.sText) }) :
                                     w.sText[j] = NL })
    IN << iLine, i - lineStart(w, iLine) >>

\* the offset of the index "line.char"
offsetOf(w, lPos) == charOffset(w, lineIdx(lPos[1]), lPos[2])

(***************************************************************************)
(* Application.updateHighlighting.                                         *)
(***************************************************************************)
RECURSIVE tagMatches(_, _, _, _, _)
tagMatches(w, sTag, sStartIdx, lSpans, k) ==
    IF k > Len(lSpans) THEN w
    ELSE tagMatches(tagAdd(w, sTag, charOffset(w, sStartIdx, lSpans[k][1]),
                                    charOffset(w, sStartIdx, lSpans[k][2])),
                    sTag, sStartIdx, lSpans, k + 1)

\* the loop over lNewExprs: [w, bRaised].  The index "None+0c" of a record
\* that was never rendered is a bad text index, tag_add raises TclError
RECURSIVE highlightLoop(_, _, _, _, _)
highlightLoop(w, lNewExprs, k, oSearchPattern, oFilterPattern) ==
    IF k > Len(lNewExprs) THEN [ w |-> w, bRaised |-> FALSE ]
    ELSE LET oExpr == lNewExprs[k]
             lSearchSpans == getAllMatches(oSearchPattern, oExpr.sText)
             lFilterSpans == getAllMatches(oFilterPattern, oExpr.sText)
             wS == tagMatches(w, SEARCH_TAG, oExpr.sStartIdx, lSearchSpans, 1)
             wF == tagMatches(wS, FILTER_TAG, oExpr.sStartIdx, lFilterSpans, 1)
         IN IF oExpr.sStartIdx = NoIdx
            THEN IF lSearchSpans = <<>> /\ lFilterSpans = <<>>
                 THEN highlightLoop(w, lNewExprs, k + 1, oSearchPattern, oFilterPattern)
                 ELSE [ w |-> w, bRaised |-> TRUE ]
            ELSE highlightLoop(wF, lNewExprs, k + 1, oSearchPattern, oFilterPattern)

\* w.tag_remove(sTag, sStartIdx, sEndIdx) of updateHighlighting; an argument
\* that is None ends the argument list of the Tcl command: without index2
\* the tag goes from one character, without index1 the command is in error
highlightRemove(w, sTag, sStartIdx, sEndIdx) ==
    IF sEndIdx = NoIdx
    THEN tagRemove(w, sTag, charOffset(w, sStartIdx, 0), charOffset(w, sStartIdx, 0) + 1)
    ELSE tagRemove(w, sTag, charOffset(w, sStartIdx, 0), charOffset(w, sEndIdx, 0))

\* [w, bRaised] after updateHighlighting(iStartIdx); a tag that does not
\* exist yet has no range, removing it changes nothing
updateHighlighting(lExprs, w, iStartIdx, oSearchPattern, oFilterPattern) ==
    LET lNewExprs == SelectSeq(SubSeq(lExprs, iStartIdx + 1, Len(lExprs)),
                               LAMBDA oExpr : oExpr.bDisplay)
        n == Len(lNewExprs)
        wClean == highlightRemove(
                      highlightRemove(w, FILTER_TAG, lNewExprs[1].sStartIdx,
                                      lNewExprs[n].sEndIdx),
                      SEARCH_TAG, lNewExprs[1].sStartIdx, lNewExprs[n].sEndIdx)
    IN IF n = 0 THEN [ w |-> w, bRaised |-> FALSE ]
       ELSE IF lNewExprs[1].sStartIdx = NoIdx THEN [ w |-> w, bRaised |-> TRUE ]
            ELSE highlightLoop(wClean, lNewExprs, 1, oSearchPattern, oFilterPattern)

(***************************************************************************)
(* Application.updateLogWidget: the loop over lExprToUpdate, from record i *)
(* (1-based) on.                                                           *)
(***************************************************************************)
exprDisplayed(oExpr, oFilterPattern, bLevels) ==
    /\ matches(oFilterPattern, oExpr.sText)
    /\ (oExpr.oLogLevel # None => bLevels[oExpr.oLogLevel])

RECURSIVE updateLoop(_, _, _, _, _, _)
updateLoop(lExprs, i, iStartLineNumber, w, oFilterPattern, bLevels) ==
    IF i > Len(lExprs) THEN [ lExprs |-> lExprs, w |-> w ]
    ELSE LET oExpr == lExprs[i]
             bDisplay == exprDisplayed(oExpr, oFilterPattern, bLevels)
             iEndLineNumber == iStartLineNumber + 1 + count(oExpr.sText, NL)
         IN IF bDisplay
            THEN updateLoop(
                    [ lExprs EXCEPT ![i] =
                        [ oExpr EXCEPT !.bDisplay = TRUE,
                                       !.sStartIdx = lineIdx(iStartLineNumber),
                                       !.sEndIdx = lineIdx(iEndLineNumber) ] ],
                    i + 1, iEndLineNumber,
                    widgetInsert(w, oExpr.sText \o <<NL>>, oExpr.oLogLevel # None),
                    oFilterPattern, bLevels)
            ELSE updateLoop(
                    [ lExprs EXCEPT ![i] = [ oExpr EXCEPT !.bDisplay = FALSE ] ],
                    i + 1, iStartLineNumber, w, oFilterPattern, bLevels)

\* lOldExpr[-1].sEndIdx is None: AttributeError at line 365
updateRaises(lExprs, iStartIdx) ==
    iStartIdx > 0 /\ lExprs[iStartIdx].sEndIdx = NoIdx

updateStartLine(lExprs, iStartIdx) ==
    IF iStartIdx > 0 THEN lineOf(lExprs[iStartIdx].sEndIdx) ELSE 1

\* the records and the widget after updateLogWidget(iStartIdx)
updateLogWidget(lExprs, w, iStartIdx, oFilterPattern, oSearchPattern, bLevels) ==
    LET iStartLineNumber == updateStartLine(lExprs, iStartIdx)
        wDel == widgetDelete(w, iStartLineNumber)
        wNl == IF iStartLineNumber > 1 THEN widgetInsert(wDel, <<NL>>, FALSE) ELSE wDel
        upd == updateLoop(lExprs, iStartIdx + 1, iStartLineNumber, wNl,
                          oFilterPattern, bLevels)
    IN [ lExprs |-> upd.lExprs,
         w |-> updateHighlighting(upd.lExprs, upd.w, iStartIdx,
                                  oSearchPattern, oFilterPattern).w ]

\* the edit script of updateLogWidget(iStartIdx): the calls of w.delete and
\* w.insert made inside safeEdit, in order
RECURSIVE editLoop(_, _, _, _)
editLoop(lExprs, i, oFilterPattern, bLevels) ==
    IF i > Len(lExprs) THEN <<>>
    ELSE (IF exprDisplayed(lExprs[i], oFilterPattern, bLevels)
          THEN << [ sOp |-> "insert", sText |-> lExprs[i].sText \o <<NL>> ] >>
          ELSE <<>>)
            \o editLoop(lExprs, i + 1, oFilterPattern, bLevels)

editScript(lExprs, iStartIdx, oFilterPattern, bLevels) ==
    LET iStartLineNumber == updateStartLine(lExprs, iStartIdx)
    IN << [ sOp |-> "delete", iLine |-> iStartLineNumber ] >>
         \o (IF iStartLineNumber > 1
             THEN << [ sOp |-> "insert", sText |-> <<NL>> ] >> ELSE <<>>)
         \o editLoop(lExprs, iStartIdx + 1, oFilterPattern, bLevels)

(***************************************************************************)
(* Application.goToNextSearchResult.  A position is the pair (line, char)  *)
(* of line 254, lCurrentSearchResult is a pair of positions or None.       *)
(***************************************************************************)
posLt(a, b) == a[1] < b[1] \/ (a[1] = b[1] /\ a[2] < b[2])

posLe(a, b) == a = b \/ posLt(a, b)

\* the ranges of SEARCH_TAG as pairs of positions
searchRanges(w) ==
    LET lRanges == tag_ranges(w, SEARCH_TAG)
    IN [ k \in DOMAIN lRanges |->
           << posOf(w, lRanges[k][1]), posOf(w, lRanges[k][2]) >> ]

\* lSearchPos: the top or the bottom of the viewport, or one end of the
\* current result
searchPos(lCurrent, bBackwards, lViewPos) ==
    IF lCurrent = NoIdx THEN lViewPos
    ELSE lCurrent[IF bBackwards THEN 1 ELSE 2]

\* the loop over the ranges, from range k on: lBestStartPos, lBestEndPos
RECURSIVE bestResult(_, _, _, _, _)
bestResult(lRanges, k, lBest, lSearchPos, bBackwards) ==
    IF k > Len(lRanges) THEN lBest
    ELSE LET lStartPos == lRanges[k][1]
             lBestStartPos == lBest[1]
             bTake ==
                IF lBest = NoIdx THEN TRUE
                ELSE IF bBackwards
                     THEN \/ posLt(lBestStartPos, lStartPos) /\ posLt(lStartPos, lSearchPos)
                          \/ posLt(lStartPos, lSearchPos) /\ posLe(lSearchPos, lBestStartPos)
                          \/ posLe(lSearchPos, lBestStartPos) /\ posLt(lBestStartPos, lStartPos)
                     ELSE \/ posLe(lSearchPos, lStartPos) /\ posLt(lStartPos, lBestStartPos)
                          \/ posLt(lBestStartPos, lSearchPos) /\ posLe(lSearchPos, lStartPos)
                          \/ posLt(lStartPos, lBestStartPos) /\ posLt(lBestStartPos, lSearchPos)
         IN bestResult(lRanges, k + 1, IF bTake THEN lRanges[k] ELSE lBest,
                       lSearchPos, bBackwards)

\* [w, lCurrent] after goToNextSearchResult(bBackwards)
goToNextSearchResult(w, lCurrent, bBackwards, lViewPos) ==
    LET lBest == bestResult(searchRanges(w), 1, NoIdx,
                            searchPos(lCurrent, bBackwards, lViewPos), bBackwards)
        wDel == tagDelete(w, CURRENT_SEARCH_TAG)
    IN IF lBest = NoIdx THEN [ w |-> wDel, lCurrent |-> lCurrent ]
       ELSE [ w |-> tagAdd(wDel, CURRENT_SEARCH_TAG,
                           offsetOf(wDel, lBest[1]), offsetOf(wDel, lBest[2])),
              lCurrent |-> lBest ]

\* [w, lCurrent] after onSearchQueryUpdated; when updateHighlighting raises
\* the callback ends there
onSearchQueryUpdated(lExprs, w, lCurrent, oSearch, oFilter, lViewPos) ==
    LET hl == updateHighlighting(lExprs, w, 0, oSearch, oFilter)
    IN IF hl.bRaised THEN [ w |-> hl.w, lCurrent |-> lCurrent ]
       ELSE goToNextSearchResult(hl.w, NoIdx, FALSE, lViewPos)

(***************************************************************************)
(* Application.appendLogLines: the loop over the non-empty lines, from     *)
(* line k on.  acc is [lExprs, iFirstExprIdx].                             *)
(***************************************************************************)
\* variant: empty lines are kept
nonEmptyLines_keepAll(lLines) == lLines

nonEmptyLines(lLines) == SelectSeq(lLines, LAMBDA sLine : sLine # <<>>)

newExprLevel(sLine, bIsExpr) == getLogLevel(sLine)

\* variant: a continuation line extends the first record
appendLine_first(acc, sLine, k) ==
    LET bIsExpr == isLogLine(sLine)
        lExprs == acc.lExprs
    IN IF bIsExpr \/ lExprs = <<>>
       THEN [ acc EXCEPT !.lExprs =
                Append(lExprs, Expression(sLine, newExprLevel(sLine, bIsExpr))) ]
       ELSE [ lExprs |-> [ lExprs EXCEPT ![1].sText = @ \o <<NL>> \o sLine ],
              iFirstExprIdx |->
                 IF k = 1 /\ lExprs[Len(lExprs)].bDisplay
                 THEN acc.iFirstExprIdx - 1 ELSE acc.iFirstExprIdx ]

appendLine(acc, sLine, k) ==
    LET bIsExpr == isLogLine(sLine)
        lExprs == acc.lExprs
    IN IF bIsExpr \/ lExprs = <<>>
       THEN [ acc EXCEPT !.lExprs =
                Append(lExprs, Expression(sLine, newExprLevel(sLine, bIsExpr))) ]
       ELSE LET n == Len(lExprs)
                oLastExpr == lExprs[n]
            IN [ lExprs |-> [ lExprs EXCEPT ![n].sText = @ \o <<NL>> \o sLine ],
                 iFirstExprIdx |->
                    IF k = 1 /\ oLastExpr.bDisplay
                    THEN acc.iFirstExprIdx - 1 ELSE acc.iFirstExprIdx ]

RECURSIVE appendLoop(_, _, _)
appendLoop(acc, lLines, k) ==
    IF k > Len(lLines) THEN acc
    ELSE appendLoop(appendLine(acc, lLines[k], k), lLines, k + 1)

appendResult(lExprs, lLines) ==
    appendLoop([ lExprs |-> lExprs, iFirstExprIdx |-> Len(lExprs) ],
               nonEmptyLines(lLines), 1)

(***************************************************************************)
(* State.                                                                  *)
(***************************************************************************)
VARIABLES
    lExpressions,       \* Application.lExpressions
    oLogTextArea,       \* the text widget: content and tag ranges
    bLevelDisplay,      \* LogLevel.bDisplay of every level
    sFilter,            \* oFilterEntryVar
    bFilterRegex,       \* oFilterRegexVar
    sSearch,            \* oSearchEntry.oStringVar
    bSearchRegex,       \* oSearchRegexVar
    lCurrentSearchResult, \* Application.lCurrentSearchResult
    sArgText,           \* the text handed to Pattern.getAllMatches
    lYielded,           \* what that call of getAllMatches yields
    oQueue,             \* Application.oQueue
    bProcessQueue,      \* Application.bProcessQueue
    bTickScheduled,     \* an after(500, doProcess) callback is pending
    bWatchFile,         \* Application.bWatchFile
    oFileWatchThread,   \* Application.oFileWatchThread
    threads,            \* the Thread objects: position, path, content read
    uiPc,               \* position of the UI thread
    sPendingPath,       \* sFilePath of the startFileWatch call in progress
    lRecentSourceFiles, \* Application.lRecentSourceFiles
    lQueueSrc,          \* history: the file every queued chunk was read from
    sExprSrc,           \* history: the files the records' lines were read from
    lArrived,           \* history: the lines appended since the last clear
    iDirtyStart,        \* history: iStartIdx of the last appendLogLines call
    sLastCall           \* history: what the last callback of the UI thread did

vars == << lExpressions, oLogTextArea, bLevelDisplay, sFilter, bFilterRegex,
           sSearch, bSearchRegex, lCurrentSearchResult, sArgText, lYielded, oQueue,
           bProcessQueue, bTickScheduled, bWatchFile, oFileWatchThread,
           threads, uiPc, sPendingPath, lRecentSourceFiles, lQueueSrc,
           sExprSrc, lArrived, iDirtyStart, sLastCall >>

viewVars == << lExpressions, oLogTextArea, bLevelDisplay, sFilter, bFilterRegex >>
searchVars == << sSearch, bSearchRegex, lCurrentSearchResult, sArgText, lYielded >>
watchVars == << bWatchFile, oFileWatchThread, threads, uiPc, sPendingPath >>

ThreadIds == { "t1", "t2" }

oFilterPattern == Pattern(sFilter, bFilterRegex)

oSearchPattern == Pattern(sSearch, bSearchRegex)

\* the state after construction, the search widgets and the argument of
\* getAllMatches left out
InitRest ==
    /\ lExpressions = <<>>
    /\ oLogTextArea = emptyWidget
    /\ bLevelDisplay = [ n \in LevelNames |-> TRUE ]
    /\ sFilter = <<>>
    /\ bFilterRegex = TRUE
    /\ lCurrentSearchResult = NoIdx
    /\ lYielded = <<>>
    /\ oQueue = <<>>
    /\ bProcessQueue = TRUE
    /\ bTickScheduled = TRUE
    /\ bWatchFile = FALSE
    /\ oFileWatchThread = None
    /\ threads = [ t \in ThreadIds |->
                    [ pc |-> "unborn", sFilePath |-> None, sContent |-> <<>> ] ]
    /\ uiPc = "idle"
    /\ sPendingPath = None
    /\ lRecentSourceFiles = <<>>
    /\ lQueueSrc = <<>>
    /\ sExprSrc = {}
    /\ lArrived = <<>>
    /\ iDirtyStart = -1
    /\ sLastCall = "other"

Init ==
    /\ sSearch = <<>>
    /\ bSearchRegex = TRUE
    /\ sArgText = <<>>
    /\ InitRest

(***************************************************************************)
(* What a watched file delivers in one read: some lines, each terminated.  *)
(***************************************************************************)
RECURSIVE joinLines(_)
joinLines(lLines) ==
    IF lLines = <<>> THEN <<>>
    ELSE Head(lLines) \o <<NL>> \o joinLines(Tail(lLines))

Chunks ==
    { joinLines(l) : l \in UNION { [ 1 .. n -> LogLines ] : n \in 1 .. MaxChunkLines } }

WatchChunks ==
    { joinLines(<<sLine>>) : sLine \in { <<DATE, SP, "ERROR", SP>>, <<"a", SP, "INFO", SP, "ERROR", SP>> } }

\* lLines of doProcess once the queue is drained
\* variant: the lines of a chunk replace the lines taken so far
chunkLines_replace(lLines, sContent) == splitlines(sContent)

\* lLines += self.oQueue.get(False).splitlines()
chunkLines(lLines, sContent) == lLines \o splitlines(sContent)

RECURSIVE drainLines(_)
drainLines(q) ==
    IF q = <<>> THEN <<>>
    ELSE chunkLines(drainLines(SubSeq(q, 1, Len(q) - 1)), q[Len(q)])

\* the non-empty lines held by the records, the queue and the threads
heldLines ==
    LET lineCount(sContent) == Len(nonEmptyLines(splitlines(sContent)))
        RECURSIVE sum(_)
        sum(l) == IF l = <<>> THEN 0 ELSE lineCount(Head(l)) + sum(Tail(l))
        inThread(t) == IF threads[t].pc = "put" THEN lineCount(threads[t].sContent) ELSE 0
    IN Len(lArrived) + sum(oQueue) + inThread("t1") + inThread("t2")

(***************************************************************************)
(* The UI thread: callbacks run one at a time, when no other one runs.     *)
(***************************************************************************)
\* variant: the tick drains the queue whatever the pause flag says
tickDrains_always(bProcess) == TRUE

\* if self.bProcessQueue:
tickDrains(bProcess) == bProcess

\* doProcess of startQueueProcessing
doProcess ==
    /\ uiPc = "idle"
    /\ bTickScheduled
    /\ sLastCall' = IF bProcessQueue THEN "other" ELSE "pausedTick"
    /\ IF tickDrains(bProcessQueue) /\ drainLines(oQueue) # <<>>
       THEN LET lLines == drainLines(oQueue)
                app == appendResult(lExpressions, lLines)
                upd == updateLogWidget(app.lExprs, oLogTextArea, app.iFirstExprIdx,
                                       oFilterPattern, oSearchPattern, bLevelDisplay)
            IN /\ oQueue' = <<>>
               /\ lQueueSrc' = <<>>
               /\ sExprSrc' = sExprSrc \cup { lQueueSrc[i] : i \in DOMAIN lQueueSrc }
               /\ lArrived' = lArrived \o SelectSeq(lLines, LAMBDA sLine : Len(sLine) > 0)
               /\ iDirtyStart' = app.iFirstExprIdx
               /\ IF updateRaises(app.lExprs, app.iFirstExprIdx)
                  THEN /\ lExpressions' = app.lExprs
                       /\ oLogTextArea' = oLogTextArea
                       /\ bTickScheduled' = FALSE
                  ELSE /\ lExpressions' = upd.lExprs
                       /\ oLogTextArea' = upd.w
                       /\ bTickScheduled' = TRUE
       ELSE /\ iDirtyStart' = -1
            /\ UNCHANGED << lExpressions, oLogTextArea, oQueue, lQueueSrc, sExprSrc,
                            lArrived, bTickScheduled >>
    /\ UNCHANGED << bLevelDisplay, sFilter, bFilterRegex, bProcessQueue,
                    lRecentSourceFiles >>
    /\ UNCHANGED watchVars
    /\ UNCHANGED searchVars

\* updateLogWidget() called by a callback of the filter widgets
updateAll(oPattern, bLevels) ==
    LET upd == updateLogWidget(lExpressions, oLogTextArea, 0, oPattern,
                              oSearchPattern, bLevels)
    IN /\ lExpressions' = upd.lExprs
       /\ oLogTextArea' = upd.w

\* the filter entry: a pattern is typed and Enter is pressed
onFilterEntered(sPattern) ==
    /\ uiPc = "idle"
    /\ sFilter' = sPattern
    /\ updateAll(Pattern(sPattern, bFilterRegex), bLevelDisplay)
    /\ iDirtyStart' = -1
    /\ UNCHANGED << bLevelDisplay, bFilterRegex, oQueue, bProcessQueue,
                    bTickScheduled, lRecentSourceFiles, lQueueSrc, sExprSrc,
                    lArrived >>
    /\ UNCHANGED watchVars
    /\ UNCHANGED searchVars
    /\ sLastCall' = "other"

\* the "Regex" check button of the filter
onFilterRegexToggled ==
    /\ uiPc = "idle"
    /\ bFilterRegex' = ~bFilterRegex
    /\ updateAll(Pattern(sFilter, ~bFilterRegex), bLevelDisplay)
    /\ iDirtyStart' = -1
    /\ UNCHANGED << bLevelDisplay, sFilter, oQueue, bProcessQueue,
                    bTickScheduled, lRecentSourceFiles, lQueueSrc, sExprSrc,
                    lArrived >>
    /\ UNCHANGED watchVars
    /\ UNCHANGED searchVars
    /\ sLastCall' = "other"

\* setLogLevelDisplay, from the check button of a level
setLogLevelDisplay(sName) ==
    /\ uiPc = "idle"
    /\ bLevelDisplay' = [ bLevelDisplay EXCEPT ![sName] = ~@ ]
    /\ updateAll(oFilterPattern, bLevelDisplay')
    /\ iDirtyStart' = -1
    /\ UNCHANGED << sFilter, bFilterRegex, oQueue, bProcessQueue,
                    bTickScheduled, lRecentSourceFiles, lQueueSrc, sExprSrc,
                    lArrived >>
    /\ UNCHANGED watchVars
    /\ UNCHANGED searchVars
    /\ sLastCall' = "other"

\* what the callbacks of the search widgets leave alone
searchFrame ==
    /\ iDirtyStart' = -1
    /\ sLastCall' = "other"
    /\ UNCHANGED << lExpressions, bLevelDisplay, sFilter, bFilterRegex, oQueue,
                    bProcessQueue, bTickScheduled, lRecentSourceFiles, lQueueSrc,
                    sExprSrc, lArrived, sArgText, lYielded >>
    /\ UNCHANGED watchVars

\* the search entry: a pattern is typed and Enter is pressed; the viewport
\* shows the widget from line iViewLine on
onSearchEntered(sPattern, iViewLine) ==
    /\ uiPc = "idle"
    /\ sSearch' = sPattern
    /\ LET upd == onSearchQueryUpdated(lExpressions, oLogTextArea, lCurrentSearchResult,
                                       Pattern(sPattern, bSearchRegex), oFilterPattern,
                                       << iViewLine, 0 >>)
       IN /\ oLogTextArea' = upd.w
          /\ lCurrentSearchResult' = upd.lCurrent
    /\ UNCHANGED bSearchRegex
    /\ searchFrame

\* the "Regex" check button of the search
onSearchRegexToggled(iViewLine) ==
    /\ uiPc = "idle"
    /\ bSearchRegex' = ~bSearchRegex
    /\ LET upd == onSearchQueryUpdated(lExpressions, oLogTextArea, lCurrentSearchResult,
                                       Pattern(sSearch, ~bSearchRegex), oFilterPattern,
                                       << iViewLine, 0 >>)
       IN /\ oLogTextArea' = upd.w
          /\ lCurrentSearchResult' = upd.lCurrent
    /\ UNCHANGED sSearch
    /\ searchFrame

\* F3 and Shift-F3
onF3(bBackwards, iViewLine) ==
    /\ uiPc = "idle"
    /\ LET upd == goToNextSearchResult(oLogTextArea, lCurrentSearchResult, bBackwards,
                                       << iViewLine, 0 >>)
       IN /\ oLogTextArea' = upd.w
          /\ lCurrentSearchResult' = upd.lCurrent
    /\ UNCHANGED << sSearch, bSearchRegex >>
    /\ searchFrame

\* clearLog, from the "Clear" button
clearLog ==
    /\ uiPc = "idle"
    /\ lExpressions' = <<>>
    /\ oLogTextArea' = widgetDelete(oLogTextArea, 1)
    /\ sExprSrc' = {}
    /\ lArrived' = <<>>
    /\ iDirtyStart' = -1
    /\ UNCHANGED << bLevelDisplay, sFilter, bFilterRegex, oQueue, bProcessQueue,
                    bTickScheduled, lRecentSourceFiles, lQueueSrc >>
    /\ UNCHANGED watchVars
    /\ UNCHANGED searchVars
    /\ sLastCall' = "other"

onPauseResumeButtonClicked ==
    /\ uiPc = "idle"
    /\ bProcessQueue' = ~bProcessQueue
    /\ sLastCall' = "other"
    /\ iDirtyStart' = -1
    /\ UNCHANGED << oQueue, bTickScheduled, lRecentSourceFiles, lQueueSrc,
                    sExprSrc, lArrived >>
    /\ UNCHANGED viewVars
    /\ UNCHANGED watchVars
    /\ UNCHANGED searchVars

\* stopFileWatch up to the join
stopRequested == IF oFileWatchThread # None THEN FALSE ELSE bWatchFile

\* variant: the join does not wait
joined_noWait == TRUE

\* oFileWatchThread.join() returns
joined ==
    IF oFileWatchThread = None THEN TRUE ELSE threads[oFileWatchThread].pc = "dead"

\* startFileWatch, first statement: stopFileWatch() sets the flag and joins
startFileWatch(sFilePath) ==
    /\ bWatchFile' = stopRequested
    /\ uiPc' = "startJoin"
    /\ sPendingPath' = sFilePath
    /\ iDirtyStart' = -1
    /\ UNCHANGED << oFileWatchThread, threads, oQueue, bProcessQueue,
                    bTickScheduled, lQueueSrc, sExprSrc, lArrived >>
    /\ UNCHANGED viewVars
    /\ UNCHANGED searchVars
    /\ sLastCall' = "other"

\* os.path.isfile(sFilePath)
isfile(sFilePath) == sFilePath \in Files

recentFirst(lRecent, sFilePath) ==
    <<sFilePath>> \o SelectSeq(lRecent, LAMBDA s : s # sFilePath)

\* openNewSourceFile, from the source menu or the file dialog
openNewSourceFile(sFilePath) ==
    /\ uiPc = "idle"
    /\ IF ~isfile(sFilePath)
       THEN /\ iDirtyStart' = -1
            /\ UNCHANGED << oQueue, bProcessQueue, bTickScheduled,
                            lRecentSourceFiles, lQueueSrc, sExprSrc, lArrived >>
            /\ UNCHANGED viewVars
            /\ UNCHANGED watchVars
            /\ UNCHANGED searchVars
            /\ sLastCall' = "openFailed"
       ELSE /\ lRecentSourceFiles' = recentFirst(lRecentSourceFiles, sFilePath)
            /\ startFileWatch(sFilePath)

\* the "Reload" button: startFileWatch(lRecentSourceFiles[0])
onReloadButtonClicked ==
    /\ uiPc = "idle"
    /\ lRecentSourceFiles # <<>>
    /\ startFileWatch(lRecentSourceFiles[1])
    /\ UNCHANGED lRecentSourceFiles

\* the Thread object created by Thread(target=...); a thread that has
\* terminated takes no further step and t1 stands for the new object
freeThread ==
    IF threads["t1"].pc \in { "unborn", "dead" } THEN "t1" ELSE "t2"

\* variant: the queue is not cleared
clearedQueue_kept(q) == q

\* self.oQueue.queue.clear()
clearedQueue(q) == <<>>

\* startFileWatch once the join has returned: clearLog, queue.clear, start
startFileWatchJoined ==
    /\ uiPc = "startJoin"
    /\ joined
    /\ threads[freeThread].pc \in { "unborn", "dead" }
    /\ lExpressions' = <<>>
    /\ oLogTextArea' = widgetDelete(oLogTextArea, 1)
    /\ oQueue' = clearedQueue(oQueue)
    /\ threads' = [ threads EXCEPT ![freeThread] =
                      [ pc |-> "start", sFilePath |-> sPendingPath, sContent |-> <<>> ] ]
    /\ oFileWatchThread' = freeThread
    /\ uiPc' = "idle"
    /\ sPendingPath' = None
    /\ lQueueSrc' = clearedQueue(lQueueSrc)
    /\ sExprSrc' = {}
    /\ lArrived' = <<>>
    /\ iDirtyStart' = -1
    /\ UNCHANGED << bLevelDisplay, sFilter, bFilterRegex, bProcessQueue,
                    bTickScheduled, bWatchFile, lRecentSourceFiles >>
    /\ UNCHANGED searchVars
    /\ sLastCall' = "other"

\* onClose, first statement: stopFileWatch()
onClose ==
    /\ uiPc = "idle"
    /\ bWatchFile' = stopRequested
    /\ uiPc' = "closeJoin"
    /\ iDirtyStart' = -1
    /\ UNCHANGED << oFileWatchThread, threads, sPendingPath, oQueue,
                    bProcessQueue, bTickScheduled, lRecentSourceFiles,
                    lQueueSrc, sExprSrc, lArrived >>
    /\ UNCHANGED viewVars
    /\ UNCHANGED searchVars
    /\ sLastCall' = "other"

\* onClose once the join has returned: oMaster.destroy()
onCloseJoined ==
    /\ uiPc = "closeJoin"
    /\ joined
    /\ uiPc' = "closed"
    /\ bTickScheduled' = FALSE
    /\ iDirtyStart' = -1
    /\ UNCHANGED << bWatchFile, oFileWatchThread, threads, sPendingPath, oQueue,
                    bProcessQueue, lRecentSourceFiles, lQueueSrc, sExprSrc,
                    lArrived >>
    /\ UNCHANGED viewVars
    /\ UNCHANGED searchVars
    /\ sLastCall' = "other"

(***************************************************************************)
(* The watcher thread t (Application.fileWatch).                           *)
(***************************************************************************)
threadFrame ==
    /\ iDirtyStart' = iDirtyStart
    /\ UNCHANGED << oFileWatchThread, uiPc, sPendingPath, bProcessQueue,
                    bTickScheduled, lRecentSourceFiles, sExprSrc, lArrived >>
    /\ UNCHANGED viewVars
    /\ UNCHANGED searchVars
    /\ UNCHANGED sLastCall

\* self.bWatchFile = True
fileWatchBegin(t) ==
    /\ threads[t].pc = "start"
    /\ bWatchFile' = TRUE
    /\ threads' = [ threads EXCEPT ![t].pc = "open" ]
    /\ UNCHANGED << oQueue, lQueueSrc >>
    /\ threadFrame

\* open(sFilePath): the file is there, or it is gone and open raises
fileWatchOpen(t, bOpened) ==
    /\ threads[t].pc = "open"
    /\ threads' = [ threads EXCEPT ![t].pc = IF bOpened THEN "loop" ELSE "dead" ]
    /\ UNCHANGED << bWatchFile, oQueue, lQueueSrc >>
    /\ threadFrame

\* while self.bWatchFile: sContent = oFile.read()
fileWatchRead(t, sContent) ==
    /\ threads[t].pc = "loop"
    /\ bWatchFile
    /\ threads' = [ threads EXCEPT ![t].pc = IF sContent = <<>> THEN "sleep" ELSE "put",
                                   ![t].sContent = sContent ]
    /\ UNCHANGED << bWatchFile, oQueue, lQueueSrc >>
    /\ threadFrame

\* time.sleep(0.5) returns
fileWatchSleep(t) ==
    /\ threads[t].pc = "sleep"
    /\ threads' = [ threads EXCEPT ![t].pc = "loop" ]
    /\ UNCHANGED << bWatchFile, oQueue, lQueueSrc >>
    /\ threadFrame

\* self.oQueue.put(sContent)
fileWatchPut(t) ==
    /\ threads[t].pc = "put"
    /\ oQueue' = Append(oQueue, threads[t].sContent)
    /\ lQueueSrc' = Append(lQueueSrc, threads[t].sFilePath)
    /\ threads' = [ threads EXCEPT ![t].pc = "loop", ![t].sContent = <<>> ]
    /\ UNCHANGED bWatchFile
    /\ threadFrame

\* the loop condition is false: the thread terminates
fileWatchEnd(t) ==
    /\ threads[t].pc = "loop"
    /\ ~bWatchFile
    /\ threads' = [ threads EXCEPT ![t].pc = "dead" ]
    /\ UNCHANGED << bWatchFile, oQueue, lQueueSrc >>
    /\ threadFrame

Paths == Files \cup { "nofile" }
ToggleLevels == { "Info" }

\* the model holds at most iMaxLines lines and iMaxQueue queued chunks
roomFor(sContent, iMaxQueue, iMaxLines) ==
    sContent # <<>> =>
        /\ Len(oQueue) < iMaxQueue
        /\ heldLines + Len(nonEmptyLines(splitlines(sContent))) <= iMaxLines

(***************************************************************************)
(* Spec: one file is watched; what it delivers is assembled and projected  *)
(* under every filter, level display and clearing.                         *)
(***************************************************************************)
Next ==
    \/ doProcess
    \/ \E sPattern \in FilterTexts : onFilterEntered(sPattern)
    \/ onFilterRegexToggled
    \/ \E sName \in ToggleLevels : setLogLevelDisplay(sName)
    \/ clearLog
    \/ openNewSourceFile("f1")
    \/ startFileWatchJoined
    \/ \E t \in ThreadIds : fileWatchBegin(t)
    \/ \E t \in ThreadIds : fileWatchOpen(t, TRUE)
    \/ \E t \in ThreadIds, sContent \in Chunks :
          fileWatchRead(t, sContent) /\ roomFor(sContent, MaxQueue, MaxLines)
    \/ \E t \in ThreadIds : fileWatchPut(t)
    \/ \E t \in ThreadIds : fileWatchEnd(t)

Spec == Init /\ [][Next]_vars

(***************************************************************************)
(* SpecSearch: one file is opened once; what it delivers is filtered,      *)
(* searched and walked through with F3, with patterns that compile and     *)
(* patterns that do not.                                                   *)
(***************************************************************************)
SearchChunks == { joinLines(<<sLine>>) : sLine \in SearchLines }

ViewLines == 1 .. widgetLines(oLogTextArea)

NextSearch ==
    \/ doProcess
    \/ \E sPattern \in SearchFilterTexts : onFilterEntered(sPattern)
    \/ \E sPattern \in SearchTexts, iViewLine \in ViewLines :
          onSearchEntered(sPattern, iViewLine)
    \/ \E iViewLine \in ViewLines : onSearchRegexToggled(iViewLine)
    \/ \E bBackwards \in BOOLEAN, iViewLine \in ViewLines : onF3(bBackwards, iViewLine)
    \/ oFileWatchThread = None /\ openNewSourceFile("f1")
    \/ startFileWatchJoined
    \/ \E t \in ThreadIds : fileWatchBegin(t)
    \/ \E t \in ThreadIds : fileWatchOpen(t, TRUE)
    \/ \E t \in ThreadIds, sContent \in SearchChunks :
          fileWatchRead(t, sContent) /\ roomFor(sContent, MaxSearchQueue, MaxSearchLines)
    \/ \E t \in ThreadIds : fileWatchPut(t)

SpecSearch == Init /\ [][NextSearch]_vars

(***************************************************************************)
(* SpecSearchFair: SpecSearch with the pending after(500, doProcess)       *)
(* callback run by the event loop and the watcher thread scheduled fairly. *)
(***************************************************************************)
\* a step of doProcess that drains the queue
tickDrainsQueue ==
    /\ uiPc = "idle"
    /\ bTickScheduled
    /\ tickDrains(bProcessQueue)
    /\ oQueue # <<>>
    /\ oQueue' = <<>>

SpecSearchFair ==
    /\ SpecSearch
    /\ WF_oQueue(tickDrainsQueue)
    /\ WF_vars(startFileWatchJoined)
    /\ WF_vars(\E t \in ThreadIds : fileWatchBegin(t))
    /\ WF_vars(\E t \in ThreadIds : fileWatchOpen(t, TRUE))
    /\ WF_vars(\E t \in ThreadIds : fileWatchPut(t))

(***************************************************************************)
(* SpecMatch: Pattern.getAllMatches is called with every text and every    *)
(* pattern of the inputs, in literal and in regex mode.                    *)
(***************************************************************************)
InitMatch ==
    /\ sSearch \in MatchPatterns
    /\ bSearchRegex \in BOOLEAN
    /\ sArgText \in MatchTexts
    /\ InitRest

\* list(oSearchPattern.getAllMatches(sArgText))
getAllMatchesCalled ==
    /\ lYielded' = getAllMatches(oSearchPattern, sArgText)
    /\ sLastCall' = "getAllMatches"
    /\ UNCHANGED << sSearch, bSearchRegex, lCurrentSearchResult, sArgText,
                    oQueue, bProcessQueue, bTickScheduled, lRecentSourceFiles,
                    lQueueSrc, sExprSrc, lArrived, iDirtyStart >>
    /\ UNCHANGED viewVars
    /\ UNCHANGED watchVars

NextMatch == getAllMatchesCalled

SpecMatch == InitMatch /\ [][NextMatch]_vars

(***************************************************************************)
(* SpecWatch: files are opened, reloaded and closed at any moment; the     *)
(* watcher threads run at any speed.                                       *)
(***************************************************************************)
NextWatch ==
    \/ doProcess
    \/ clearLog
    \/ onPauseResumeButtonClicked
    \/ \E sFilePath \in Paths : openNewSourceFile(sFilePath)
    \/ onReloadButtonClicked
    \/ startFileWatchJoined
    \/ onClose
    \/ onCloseJoined
    \/ \E t \in ThreadIds : fileWatchBegin(t)
    \/ \E t \in ThreadIds, bOpened \in BOOLEAN : fileWatchOpen(t, bOpened)
    \/ \E t \in ThreadIds, sContent \in WatchChunks \cup { <<>> } :
          fileWatchRead(t, sContent) /\ roomFor(sContent, MaxWatchQueue, MaxWatchLines)
    \/ \E t \in ThreadIds : fileWatchSleep(t)
    \/ \E t \in ThreadIds : fileWatchPut(t)
    \/ \E t \in ThreadIds : fileWatchEnd(t)

SpecWatch == Init /\ [][NextWatch]_vars

(***************************************************************************)
(* SpecWatchFair: SpecWatch with every watcher thread scheduled fairly and *)
(* a join that returns once the joined thread has terminated.              *)
(***************************************************************************)
SpecWatchFair ==
    /\ SpecWatch
    /\ WF_vars(\E t \in ThreadIds : fileWatchBegin(t))
    /\ WF_vars(\E t \in ThreadIds, bOpened \in BOOLEAN : fileWatchOpen(t, bOpened))
    /\ WF_vars(\E t \in ThreadIds : fileWatchRead(t, <<>>))
    /\ WF_vars(\E t \in ThreadIds : fileWatchSleep(t))
    /\ WF_vars(\E t \in ThreadIds : fileWatchPut(t))
    /\ WF_vars(\E t \in ThreadIds : fileWatchEnd(t))
    /\ WF_vars(startFileWatchJoined)
    /\ WF_vars(onCloseJoined)

(***************************************************************************)
(* SpecBatch: one file is watched and delivers its lines in chunks of one  *)
(* or several lines; several chunks may wait in the queue, the tick may be *)
(* paused, filters that hide every record may be entered.                  *)
(***************************************************************************)
\* one to MaxBatchChunkLines lines, or an empty line in front of one line
BatchChunks ==
    { joinLines(l) :
        l \in UNION { [ 1 .. n -> BatchLines ] : n \in 1 .. MaxBatchChunkLines } }
      \cup { <<NL>> \o joinLines(<<sLine>>) : sLine \in BatchLines }

NextBatch ==
    \/ doProcess
    \/ \E sPattern \in BatchFilterTexts : onFilterEntered(sPattern)
    \/ onPauseResumeButtonClicked
    \/ oFileWatchThread = None /\ openNewSourceFile("f1")
    \/ startFileWatchJoined
    \/ \E t \in ThreadIds : fileWatchBegin(t)
    \/ \E t \in ThreadIds : fileWatchOpen(t, TRUE)
    \/ \E t \in ThreadIds, sContent \in BatchChunks :
          fileWatchRead(t, sContent) /\ roomFor(sContent, MaxBatchQueue, MaxBatchLines)
    \/ \E t \in ThreadIds : fileWatchPut(t)

SpecBatch == Init /\ [][NextBatch]_vars

(***************************************************************************)
(* Properties.                                                             *)
(***************************************************************************)
RECURSIVE sumSeq(_)
sumSeq(l) == IF l = <<>> THEN 0 ELSE Head(l) + sumSeq(Tail(l))

\* str.split("\n"): the pieces between the newlines, empty ones included
RECURSIVE splitNL(_)
splitNL(sText) ==
    LET nls == { i \in DOMAIN sText : sText[i] = NL }
    IN IF nls = {} THEN <<sText>>
       ELSE <<SubSeq(sText, 1, Min(nls) - 1)>>
                \o splitNL(SubSeq(sText, Min(nls) + 1, Len(sText)))

RECURSIVE concatAll(_)
concatAll(l) == IF l = <<>> THEN <<>> ELSE Head(l) \o concatAll(Tail(l))

visibleIdx == { i \in DOMAIN lExpressions : lExpressions[i].bDisplay }

appendJustRan == iDirtyStart # -1

\* C1: a record is displayed iff the filter pattern matches its text and its
\* level, if it has one, is displayed.
C1_VisibleIffFilterAndLevel ==
    \A i \in DOMAIN lExpressions :
        lExpressions[i].bDisplay <=>
            /\ matches(oFilterPattern, lExpressions[i].sText)
            /\ (lExpressions[i].oLogLevel = None
                  \/ bLevelDisplay[lExpressions[i].oLogLevel])

\* C2: of two displayed records with no displayed record between them, the
\* later one starts at the line where the earlier one ends.
C2_RangesContiguous ==
    \A i, j \in visibleIdx :
        ( /\ i < j
          /\ \A k \in visibleIdx : ~(i < k /\ k < j)
          /\ lExpressions[i].sEndIdx # NoIdx
          /\ lExpressions[j].sStartIdx # NoIdx )
        => lineOf(lExpressions[j].sStartIdx) = lineOf(lExpressions[i].sEndIdx)

\* C3: after appendLogLines and its projection the widget holds as many lines
\* as the displayed records have.
C3_LineCountMatches ==
    appendJustRan =>
        count(oLogTextArea.sText, NL) =
            sumSeq([ i \in DOMAIN lExpressions |->
                       IF lExpressions[i].bDisplay
                       THEN 1 + count(lExpressions[i].sText, NL) ELSE 0 ])

\* C4: the records are the non-empty lines appended since the last clear, in
\* order, cut in front of every line with a date prefix; only the first record
\* may start with a line without one; no empty line is part of a record.
C4_RecordsGroupLines ==
    /\ concatAll([ i \in DOMAIN lExpressions |-> splitNL(lExpressions[i].sText) ])
          = lArrived
    /\ \A i \in DOMAIN lExpressions :
          LET lParts == splitNL(lExpressions[i].sText)
          IN /\ \A k \in DOMAIN lParts : lParts[k] # <<>>
             /\ \A k \in DOMAIN lParts : k > 1 => ~isLogLine(lParts[k])
             /\ i > 1 => isLogLine(lParts[1])

C4_Witness ==
    /\ Len(lExpressions) = 2
    /\ ~isLogLine(splitNL(lExpressions[1].sText)[1])
    /\ Len(splitNL(lExpressions[2].sText)) = 2

isPrefix(s, t) == Len(s) <= Len(t) /\ SubSeq(t, 1, Len(s)) = s

\* C5: a step either empties the list, and then it is clearLog or
\* startFileWatch, or keeps every record in place with its text, the last
\* one's text possibly extended; only appendLogLines changes a text or adds
\* a record.
C5_AppendOnly ==
    [][ LET n == Len(lExpressions)
        IN IF lExpressions' = <<>> /\ n > 0
           THEN clearLog \/ startFileWatchJoined
           ELSE /\ Len(lExpressions') >= n
                /\ \A i \in 1 .. n :
                      /\ i < n => lExpressions'[i].sText = lExpressions[i].sText
                      /\ isPrefix(lExpressions[i].sText, lExpressions'[i].sText)
                /\ ~appendJustRan' =>
                      /\ Len(lExpressions') = n
                      /\ \A i \in 1 .. n :
                            lExpressions'[i].sText = lExpressions[i].sText
      ]_vars

C5_Witness ==
    /\ appendJustRan
    /\ Len(lExpressions) = 2
    /\ count(lExpressions[2].sText, NL) = 1
    /\ Len(lArrived) = 3

firstLine(sText) == splitNL(sText)[1]

\* the first level of the declared order whose rule matches, None if none
isFirstMatchingLevel(sLevel, sLine) ==
    IF sLevel = None
    THEN \A k \in DOMAIN lLogLevels : ~levelMatches(lLogLevels[k], sLine)
    ELSE \E k \in DOMAIN lLogLevels :
            /\ lLogLevels[k].sName = sLevel
            /\ levelMatches(lLogLevels[k], sLine)
            /\ \A m \in 1 .. (k - 1) : ~levelMatches(lLogLevels[m], sLine)

C6_LevelOfCreatingLine ==
    \A i \in DOMAIN lExpressions :
        isFirstMatchingLevel(lExpressions[i].oLogLevel,
                             firstLine(lExpressions[i].sText))

C6_LevelFixed ==
    [][ \A i \in DOMAIN lExpressions :
          (i \in DOMAIN lExpressions' /\ ~(clearLog \/ startFileWatchJoined))
              => lExpressions'[i].oLogLevel = lExpressions[i].oLogLevel ]_vars

\* C6: the level of a record is the first level, in the order Error, Warning,
\* Info, Debug, whose rule matches the line that created the record, None if
\* no rule matches, and no step changes it.
C6_SeverityFirstMatch == []C6_LevelOfCreatingLine /\ C6_LevelFixed

C6_Witness ==
    \E i \in DOMAIN lExpressions :
        /\ lExpressions[i].oLogLevel = "Error"
        /\ levelMatches(lLogLevels[3], firstLine(lExpressions[i].sText))
        /\ count(lExpressions[i].sText, NL) > 0
        /\ ~bLevelDisplay["Info"]
        /\ sFilter # <<>>

inJoin == uiPc \in { "startJoin", "closeJoin" }

\* C8: every call of stopFileWatch returns.
C8_StopReturns == inJoin ~> ~inJoin

alive(t) == threads[t].pc \in { "start", "open", "loop", "sleep", "put" }

\* C9: once a watcher thread is started for a file, every queued chunk and
\* every line of the records was read from that file.
C9_NoChunkOfReplacedFile ==
    oFileWatchThread # None =>
        LET sFilePath == threads[oFileWatchThread].sFilePath
        IN /\ \A i \in DOMAIN lQueueSrc : lQueueSrc[i] = sFilePath
           /\ sExprSrc \subseteq { sFilePath }
           /\ \A t \in ThreadIds :
                 threads[t].pc = "put" => threads[t].sFilePath = sFilePath

C9_Witness ==
    /\ lRecentSourceFiles = << "f2", "f1" >>
    /\ oFileWatchThread # None
    /\ threads[oFileWatchThread].sFilePath = "f2"
    /\ lQueueSrc = << "f2" >>
    /\ sExprSrc = { "f2" }

\* C10: at most one watcher thread is alive.
C10_AtMostOneWatcher ==
    Cardinality({ t \in ThreadIds : alive(t) }) <= 1

C10_Witness ==
    /\ lRecentSourceFiles = << "f2", "f1" >>
    /\ oFileWatchThread # None
    /\ threads[oFileWatchThread].pc = "start"
    /\ threads[oFileWatchThread].sFilePath = "f2"

\* C11: while the pause flag is set, a tick reschedules itself, takes no chunk
\* from the queue and leaves the records and the widget as they are, and a
\* put of the watcher thread makes the queue one chunk longer.
C11_PausedTickKeepsQueue ==
    [][ /\ (~bProcessQueue /\ doProcess) =>
              /\ bTickScheduled'
              /\ UNCHANGED << oQueue, lExpressions, oLogTextArea >>
        /\ (~bProcessQueue /\ \E t \in ThreadIds : fileWatchPut(t)) =>
              /\ Len(oQueue') = Len(oQueue) + 1
              /\ UNCHANGED << lExpressions, oLogTextArea >>
      ]_vars

C11_Witness ==
    /\ ~bProcessQueue
    /\ sLastCall = "pausedTick"
    /\ Len(oQueue) >= 2
    /\ \E t \in ThreadIds : threads[t].pc = "loop"

\* C12: once openNewSourceFile has been called with a path that is not a
\* regular file, no watch is being started, no watcher thread is alive and
\* the records and the widget are empty.
C12_MissingFileStopsAndClears ==
    sLastCall = "openFailed" =>
        /\ uiPc = "idle"
        /\ \A t \in ThreadIds : ~alive(t)
        /\ lExpressions = <<>>
        /\ oLogTextArea.sText = <<>>

\* a pattern in regex mode whose raw string does not compile
invalidPattern(oPattern) ==
    oPattern.bRegex /\ oPattern.sPattern # <<>> /\ compileFails(oPattern.sPattern)

C13_MatchesNothing ==
    \A oPattern \in { oFilterPattern, oSearchPattern } :
        invalidPattern(oPattern) =>
            \A i \in DOMAIN lExpressions :
                /\ ~matches(oPattern, lExpressions[i].sText)
                /\ getAllMatches(oPattern, lExpressions[i].sText) = <<>>

C13_AllHiddenNoHighlight ==
    /\ invalidPattern(oFilterPattern) =>
          /\ \A i \in DOMAIN lExpressions : ~lExpressions[i].bDisplay
          /\ oLogTextArea.sText = <<>>
    /\ invalidPattern(oSearchPattern) => tag_ranges(oLogTextArea, SEARCH_TAG) = <<>>

C13_AppendsGoOn ==
    [][ ((invalidPattern(oFilterPattern) \/ invalidPattern(oSearchPattern)) /\ doProcess)
            => bTickScheduled' ]_vars

\* C13: a pattern in regex mode that does not compile matches no text and
\* yields no span; with such a filter every record is hidden, with such a
\* search no character carries the search tag, and a tick that appends under
\* such a pattern ends normally and is rescheduled.
C13_InvalidRegexMatchesNothing ==
    /\ []C13_MatchesNothing
    /\ []C13_AllHiddenNoHighlight
    /\ C13_AppendsGoOn

\* appendLogLines has just run and its call of updateLogWidget ran to its end
projectionJustRan == appendJustRan /\ bTickScheduled

\* iStartIdx of the call of updateLogWidget that has just run
lastStartIdx == iDirtyStart

\* a second call of updateLogWidget with the same iStartIdx does not raise,
\* deletes nothing, inserts nothing and leaves records and widget as they are
secondProjectionIdle ==
    LET lScript == editScript(lExpressions, lastStartIdx, oFilterPattern, bLevelDisplay)
        upd == updateLogWidget(lExpressions, oLogTextArea, lastStartIdx,
                               oFilterPattern, oSearchPattern, bLevelDisplay)
    IN /\ ~updateRaises(lExpressions, lastStartIdx)
       /\ \A k \in DOMAIN lScript :
             IF lScript[k].sOp = "delete"
             THEN widgetDelete(oLogTextArea, lScript[k].iLine) = oLogTextArea
             ELSE FALSE
       /\ upd.lExprs = lExpressions
       /\ upd.w = oLogTextArea

\* C14: after a call of updateLogWidget, a second call with nothing in
\* between issues no deletion that removes text and no insertion, and leaves
\* the widget, the visibility flags and the ranges unchanged.
C14_ProjectionIdempotent ==
    projectionJustRan => secondProjectionIdle

matchCalled == sLastCall = "getAllMatches"

\* C15: for a non-empty literal pattern the spans getAllMatches yields have
\* the length of the pattern, each covers an occurrence of the pattern in the
\* text, case ignored, and each starts at or after the end of the one before.
C15_LiteralSpansOrdered ==
    (matchCalled /\ ~bSearchRegex /\ sSearch # <<>>) =>
        /\ \A k \in DOMAIN lYielded :
              /\ lYielded[k][2] - lYielded[k][1] = Len(sSearch)
              /\ lYielded[k][2] <= Len(sArgText)
              /\ lower(SubSeq(sArgText, lYielded[k][1] + 1, lYielded[k][2]))
                    = lower(sSearch)
        /\ \A k \in 1 .. (Len(lYielded) - 1) :
              /\ lYielded[k][1] < lYielded[k + 1][1]
              /\ lYielded[k][2] <= lYielded[k + 1][1]

\* C16: for the literal pattern "o" and the text "foo bar boo" getAllMatches
\* yields the spans (1,2) and (9,10) and no other.
C16_FooBarBoo ==
    (matchCalled /\ ~bSearchRegex /\ sSearch = << "o" >> /\ sArgText = fooBarBoo) =>
        lYielded = << << 1, 2 >>, << 9, 10 >> >>

\* the spans getAllMatches yields for the search pattern in the displayed
\* records, in order, as pairs of positions of the widget
matchSpans ==
    LET spansOf(oExpr) ==
            IF ~oExpr.bDisplay \/ oExpr.sStartIdx = NoIdx THEN <<>>
            ELSE LET lSpans == getAllMatches(oSearchPattern, oExpr.sText)
                 IN [ k \in DOMAIN lSpans |->
                        << posOf(oLogTextArea,
                                 charOffset(oLogTextArea, oExpr.sStartIdx, lSpans[k][1])),
                           posOf(oLogTextArea,
                                 charOffset(oLogTextArea, oExpr.sStartIdx, lSpans[k][2])) >> ]
    IN concatAll([ i \in DOMAIN lExpressions |-> spansOf(lExpressions[i]) ])

\* the widget shows the matches of the search pattern: the tagged characters
\* are the characters of the spans
searchShown ==
    oLogTextArea.tags[SEARCH_TAG] =
        UNION { offsetOf(oLogTextArea, matchSpans[k][1])
                    .. (offsetOf(oLogTextArea, matchSpans[k][2]) - 1) :
                k \in DOMAIN matchSpans }

\* the match with the smallest start at or after the end of lCurrent, the
\* first match when there is none
nextMatch(lSpans, lCurrent) ==
    LET S == { k \in DOMAIN lSpans : posLe(lCurrent[2], lSpans[k][1]) }
    IN IF S = {} THEN lSpans[1] ELSE lSpans[Min(S)]

\* the results n forward calls of goToNextSearchResult select, from lCurrent
RECURSIVE forwardCalls(_, _, _)
forwardCalls(w, lCurrent, n) ==
    IF n = 0 THEN <<>>
    ELSE LET upd == goToNextSearchResult(w, lCurrent, FALSE, << 1, 0 >>)
         IN << upd.lCurrent >> \o forwardCalls(upd.w, upd.lCurrent, n - 1)

\* C17: when the widget shows N >= 1 matches and the current result is one
\* of them, a forward call selects the match with the smallest start at or
\* after the end of the current one, the first match if there is none, and N
\* forward calls select N distinct matches, the last one being the current.
C17_NavigationCyclic ==
    LET N == Len(matchSpans)
        lVisited == forwardCalls(oLogTextArea, lCurrentSearchResult, N)
    IN ( /\ N >= 1
         /\ searchShown
         /\ \E k \in DOMAIN matchSpans : matchSpans[k] = lCurrentSearchResult )
       => /\ lVisited[1] = nextMatch(matchSpans, lCurrentSearchResult)
          /\ lVisited[N] = lCurrentSearchResult
          /\ Cardinality({ lVisited[k] : k \in 1 .. N }) = N

C18_TickRescheduled == [][ doProcess => bTickScheduled' ]_vars

C18_QueueDrained == (oQueue # <<>>) ~> (oQueue = <<>>)

\* C18: with no pause, no clear and no change of the source, whatever was
\* appended and whatever filter was entered, every tick ends with doProcess
\* scheduled again, and every chunk in the queue is eventually taken out.
C18_TickNeverStops == C18_TickRescheduled /\ C18_QueueDrained

\* the projection of appendLogLines has just run to its end
projectionCompleted == lArrived' # lArrived /\ iDirtyStart' # -1 /\ bTickScheduled'

\* the line where the last displayed record among the first k ones ends, the
\* origin if none of them is displayed
editPoint(lExprs, k) ==
    LET vis == { i \in 1 .. k : lExprs[i].bDisplay /\ lExprs[i].sEndIdx # NoIdx }
    IN IF vis = {} THEN 1
       ELSE lineOf(lExprs[CHOOSE i \in vis : \A j \in vis : j <= i].sEndIdx)

\* the lines of the widget in front of line iLine
linesBefore(w, iLine) ==
    LET lAll == splitNL(w.sText)
    IN SubSeq(lAll, 1, IF iLine - 1 < Len(lAll) THEN iLine - 1 ELSE Len(lAll))

\* C19: a projection with dirty start index k that runs to its end leaves the
\* display flag and the range of every record in front of k as they were,
\* leaves the widget lines in front of the edit point as they were, and the
\* first displayed record from k on starts at the edit point: the line where
\* the last displayed record in front of k ends, the origin if there is none.
C19_SingleEditPoint ==
    [][ projectionCompleted =>
          LET k == iDirtyStart'
              iEdit == editPoint(lExpressions, k)
              shown == { i \in (k + 1) .. Len(lExpressions') :
                            lExpressions'[i].bDisplay }
          IN /\ \A i \in 1 .. k :
                    /\ lExpressions'[i].bDisplay = lExpressions[i].bDisplay
                    /\ lExpressions'[i].sStartIdx = lExpressions[i].sStartIdx
                    /\ lExpressions'[i].sEndIdx = lExpressions[i].sEndIdx
             /\ linesBefore(oLogTextArea', iEdit) = linesBefore(oLogTextArea, iEdit)
             /\ shown # {} =>
                    lExpressions'[Min(shown)].sStartIdx = lineIdx(iEdit)
      ]_vars

\* appendLogLines has just run with continuation lines only: no record was
\* added and the text of the last one grew
continuationAppended ==
    /\ lExpressions # <<>>
    /\ lArrived' # lArrived
    /\ Len(lExpressions') = Len(lExpressions)
    /\ lExpressions'[Len(lExpressions)].sText # lExpressions[Len(lExpressions)].sText

\* C20: an appendLogLines call that extends the last record with
\* continuation lines leaves the display flag of that record as it was,
\* whatever the filter pattern is.
C20_ContinuationKeepsVisibility ==
    [][ continuationAppended =>
          lExpressions'[Len(lExpressions)].bDisplay
              = lExpressions[Len(lExpressions)].bDisplay
      ]_vars

\* C21: a record created from a line without the date prefix (the first
\* record, created because the list was empty) has no level, whatever level
\* keywords the line holds.
C21_PromotedHasNoLevel ==
    \A i \in DOMAIN lExpressions :
        ~isLogLine(firstLine(lExpressions[i].sText))
            => lExpressions[i].oLogLevel = None

isMatchSpan(lResult) == \E k \in DOMAIN matchSpans : matchSpans[k] = lResult

\* the results of a forward call followed by a backward call, from the
\* current result
forwardThenBackward ==
    LET fwd == goToNextSearchResult(oLogTextArea, lCurrentSearchResult, FALSE,
                                    << 1, 0 >>)
        bwd == goToNextSearchResult(fwd.w, fwd.lCurrent, TRUE, << 1, 0 >>)
    IN << fwd.lCurrent, bwd.lCurrent >>

\* C22: when the widget shows at least one match and the current result is
\* one of the matches, a forward call followed by a backward call selects
\* the current result again, and both calls select one of the matches.
C22_BackwardInvertsForward ==
    ( /\ Len(matchSpans) >= 1
      /\ searchShown
      /\ isMatchSpan(lCurrentSearchResult) )
    => /\ forwardThenBackward[2] = lCurrentSearchResult
       /\ isMatchSpan(forwardThenBackward[1])
       /\ isMatchSpan(forwardThenBackward[2])

\* the texts and the levels of a list of records
recordsOf(lExprs) ==
    [ i \in DOMAIN lExprs |-> << lExprs[i].sText, lExprs[i].oLogLevel >> ]

\* the records one appendLogLines call assembles from one chunk, from lExprs
oneChunk(lExprs, sContent) == appendResult(lExprs, splitlines(sContent)).lExprs

\* the records are the ones a single tick assembles from a single chunk
\* holding every line appended since the last clear
C23_AcrossTicks ==
    recordsOf(lExpressions) = recordsOf(oneChunk(<<>>, joinLines(lArrived)))

\* a tick that drains the chunks of the queue assembles the records it would
\* assemble from the one chunk that is their concatenation
C23_OneTick ==
    [][ (lArrived' # lArrived /\ iDirtyStart' # -1) =>
            recordsOf(lExpressions')
                = recordsOf(oneChunk(lExpressions, concatAll(oQueue)))
      ]_vars

\* C23: the texts and the levels of the records do not depend on the way
\* the lines were cut into chunks at line terminators: drained in one tick,
\* in several ticks or as one concatenated chunk, they are the same.
C23_BatchingIndependent == []C23_AcrossTicks /\ C23_OneTick

\* three lines were drained in more than one tick (the last tick started
\* behind a record that was there already) and a record holds a
\* continuation line
C23_Witness ==
    /\ appendJustRan
    /\ iDirtyStart >= 1
    /\ Len(lArrived) = 3
    /\ Len(lExpressions) = 2
    /\ \E i \in DOMAIN lExpressions : count(lExpressions[i].sText, NL) = 1

====
